---- MODULE Spec2Model ----
(***************************************************************************)
(* Embedding-model / vector-store compatibility lifecycle of               *)
(* image_context_extractor: DatabaseCompatibilityChecker, VectorDatabase   *)
(* and CustomSentenceTransformerEmbeddingFunction over one persistent      *)
(* ChromaDB collection.                                                    *)
(***************************************************************************)
EXTENDS Integers, FiniteSets, Sequences, TLC

\* ------------------------------------------------------------------ bounds
MaxPaths == 2

Paths == 1..MaxPaths

MaxTasks == 2      \* request-handling tasks sharing one embedding function

Tasks == 1..MaxTasks

MaxCalls == 3      \* uses of the `model` property in one behaviour

MaxTexts == 2      \* distinct combined_text values feature extraction yields

Texts == 1..MaxTexts

MaxDirs == 2       \* configured external directories

Dirs == 1..MaxDirs

MaxJobs == 3       \* background tasks created in one behaviour

\* ------------------------------------------------------- embedding models
\* Model identifiers a configuration can name.  "X" is an identifier that
\* cannot be resolved (bad local path / unreachable remote name).
ModelNames == {"A", "B", "C", "X"}

Loadable == {"A", "B", "C"}

\* Vector length produced by each model ("A" and "C" share a length).
Dim == [m \in ModelNames |->
          IF m = "B" THEN 768 ELSE IF m = "X" THEN 0 ELSE 384]

NoName == "none"    \* Python None for a metadata / record value
NoDim  == 0         \* Python None for model_dimension (falsy, like 0)

\* ---------------------------------------------------------------- state
VARIABLES
    exists,     \* the configured collection name is in client.list_collections()
    meta,       \* collection-level metadata: [name, dim] as read by .get()
    records,    \* id(path) -> name of the model that produced the stored vector
    cfg,        \* model_config: the configured sentence-transformer identifier
    db,         \* the VectorDatabase object: [open, model, loaded]
    chkLoaded,  \* _model of a retained checker's embedding function is set
    verdict,    \* dict returned by the last check_compatibility
    call,       \* arguments of the last operation: [hasEF, io, skip]
    lastOp,     \* outcome of the last operation
    initOK,     \* an initialize returned and no clear-and-reset ran since
    resetPc,    \* position of a running clear_database_and_reset
    ef,         \* one shared embedding function: [device, configured, model]
    pc,         \* position of each task inside the `model` property
    trail,      \* load strategies each task attempted in its current use
    got,        \* handle the property returned to each task (0: none)
    tally,      \* counters: [calls, built, ok]
    docs,       \* collection content: id -> [path, text] of the stored record
    ret,        \* what the last extractor / lookup call returned
    batch,      \* a directory batch: files, position, counters, status
    processing_tasks,   \* directory_id -> status entry of the route module
    jobs        \* background tasks created by process_external_directory

mainVars == <<exists, meta, records, cfg, db, chkLoaded, verdict, call, lastOp, initOK>>

loadVars == <<ef, pc, trail, got, tally>>

procVars == <<docs, ret, batch>>

taskVars == <<processing_tasks, jobs>>

vars == <<exists, meta, records, cfg, db, chkLoaded, verdict, call, lastOp,
          initOK, resetPc, ef, pc, trail, got, tally, docs, ret, batch,
          processing_tasks, jobs>>

store == <<exists, meta, records>>

NoMeta == [name |-> NoName, dim |-> NoDim]

NoRecords == [p \in Paths |-> NoName]

NoDb == [open |-> FALSE, model |-> NoName, loaded |-> FALSE]

NoModel == [name |-> NoName, dim |-> NoDim]

NoVerdict == [compatible |-> FALSE, reason |-> "none",
              current_model |-> NoModel, new_model |-> NoModel]

NoCall == [hasEF |-> TRUE, io |-> "none", skip |-> FALSE]

Reasons == {"none", "no_existing_collection", "no_model_config",
            "unreadable_metadata", "model_name_mismatch",
            "dimension_mismatch", "compatible", "check_error"}

\* ------------------------------------------------- embedding function
\* The `model` property: returns the memoized handle, or loads it; the load
\* raises when the identifier cannot be resolved.
CanEncode(model, loaded) == loaded \/ model \in Loadable

\* get_dimension(): length of the probe vector (only when CanEncode).
get_dimension(model) == Dim[model]

\* get_model_info()['dimension']: present only when the model is loaded.
info_dimension(model, loaded) == IF loaded THEN get_dimension(model) ELSE NoDim

\* ------------------------------------------- DatabaseCompatibilityChecker
Model(n, d) == [name |-> n, dim |-> d]

Verdict(c, r, cur, new) ==
    [compatible |-> c, reason |-> r, current_model |-> cur, new_model |-> new]

\* Variant of the name test that reports equal names as changed.
NameChanged_inverted(stored_model_name, current_name) ==
    stored_model_name # NoName /\ stored_model_name = current_name

\* `stored_model_name and stored_model_name != current_model_info['model_name']`
NameChanged(stored_model_name, current_name) ==
    stored_model_name # NoName /\ stored_model_name # current_name

\* Variant of the dimension test that lets a missing dimension pass.
DimensionChanged_lenient(stored_dimension, current_dimension) ==
    stored_dimension # NoDim /\ current_dimension # NoDim
        /\ stored_dimension # current_dimension

\* Variant of the dimension test that only rejects missing dimensions.
DimensionChanged_missing_only(stored_dimension, current_dimension) ==
    stored_dimension = NoDim \/ current_dimension = NoDim

\* `(not stored_dimension) or (not current_dimension) or stored != current`
DimensionChanged(stored_dimension, current_dimension) ==
    stored_dimension = NoDim \/ current_dimension = NoDim
        \/ stored_dimension # current_dimension

CheckError == Verdict(FALSE, "check_error", NoModel, NoModel)

\* Variant that assumes compatibility when the metadata cannot be read.
UnreadableMetadata_assumed_ok(model, loaded) ==
    Verdict(TRUE, "compatible", NoModel,
            Model(model, info_dimension(model, loaded)))

\* The inner except branch: get_collection raised.
UnreadableMetadata(model, loaded) ==
    Verdict(FALSE, "unreadable_metadata", NoModel,
            Model(model, info_dimension(model, loaded)))

\* check_compatibility() of a checker built for `model` (hasEF is false when
\* no model configuration was given), whose embedding function has `loaded`,
\* against the store (ex, md).  io names the store call that raises, if any:
\* "list" (list_collections), "get" (get_collection) or "none".
check_compatibility(ex, md, hasEF, model, loaded, io) ==
    IF io = "list" THEN CheckError
    ELSE IF ~ex THEN
        IF hasEF /\ ~CanEncode(model, loaded) THEN CheckError
        ELSE Verdict(TRUE, "no_existing_collection", NoModel,
                     IF hasEF THEN Model(model, get_dimension(model)) ELSE NoModel)
    ELSE IF ~hasEF THEN
        Verdict(TRUE, "no_model_config", NoModel, NoModel)
    ELSE IF io = "get" THEN UnreadableMetadata(model, loaded)
    ELSE IF ~CanEncode(model, loaded) THEN CheckError
    ELSE LET current_dimension == get_dimension(model)
             stored == Model(md.name, md.dim)
             new    == Model(model, current_dimension)
         IN  IF NameChanged(md.name, model)
                 THEN Verdict(FALSE, "model_name_mismatch", stored, new)
             ELSE IF DimensionChanged(md.dim, current_dimension)
                 THEN Verdict(FALSE, "dimension_mismatch", stored, new)
             ELSE Verdict(TRUE, "compatible", stored, new)

\* The identity values the verdict's 'message' string spells out: the two
\* names in 'Model changed: a -> b', the two dimensions in 'Embedding
\* dimension changed: x -> y', none in the other messages.
message(v) ==
    IF v.reason = "model_name_mismatch"
        THEN {<<"stored_name", v.current_model.name>>,
              <<"candidate_name", v.new_model.name>>}
    ELSE IF v.reason = "dimension_mismatch"
        THEN {<<"stored_dimension", v.current_model.dim>>,
              <<"candidate_dimension", v.new_model.dim>>}
    ELSE {}

\* The checker's embedding function holds a model after the call.
LoadedAfterCheck(ex, hasEF, model, loaded, io) ==
    \/ loaded
    \/ /\ hasEF /\ model \in Loadable
       /\ io # "list" /\ (~ex \/ io # "get")

\* ------------------------------------------------------ stored records
\* Variant of the id that does not depend on the path.
image_id_constant(p) == <<"md5", 0>>

\* hashlib.md5(image_path.encode()).hexdigest(): a function of the path
\* string alone, distinct for the distinct paths considered here.
image_id(p) == <<"md5", p>>

Ids == {image_id(p) : p \in Paths}

NoDoc == [path |-> 0, text |-> 0]

NoDocs == [i \in Ids |-> NoDoc]

\* Return value of an extractor / lookup call that has not happened.
NoRet == [op |-> "none", arg |-> 0, force |-> FALSE, text |-> 0, io |-> "none",
          raised |-> FALSE, found |-> FALSE, doc |-> NoDoc, ids |-> {},
          id |-> <<>>, extracted |-> FALSE, wrote |-> FALSE, code |-> 0]

NoBatch == [kind |-> "none", files |-> <<>>, i |-> 1, force |-> FALSE,
            processed |-> <<>>, skipped |-> 0, failed |-> 0,
            seen |-> <<>>, status |-> "none", result |-> <<>>]

\* __init__ of the embedding function: `_model` is None (0), nothing loaded.
NoEF(device) == [device |-> device, configured |-> device, model |-> 0]

\* ------------------------------------------------------- initial states
\* Identity metadata a persistent store can carry when the process starts:
\* none (a collection made by the metadata-less VectorDatabase), or any
\* combination of model_name / model_dimension keys.
StoredNames == {NoName, "A", "B", "C"}
StoredDims  == {NoDim, 384, 768}

InitStores ==
    {<<FALSE, NoMeta, NoRecords>>} \cup
    { <<TRUE, Model(n, d), r>> :
        n \in StoredNames, d \in StoredDims,
        r \in {NoRecords} \cup
              { [NoRecords EXCEPT ![1] = m] : m \in Loadable } }

ConsistentStore(s) ==
    \A p \in Paths : s[3][p] # NoName =>
        (s[2].name \in {NoName, s[3][p]} /\ s[2].dim \in {NoDim, Dim[s[3][p]]})

Init ==
    /\ \E s \in {t \in InitStores : ConsistentStore(t)} :
          /\ exists = s[1]
          /\ meta = s[2]
          /\ records = s[3]
    /\ cfg \in ModelNames
    /\ db = NoDb
    /\ chkLoaded = FALSE
    /\ verdict = NoVerdict
    /\ call = NoCall
    /\ lastOp = "start"
    /\ initOK = FALSE
    /\ resetPc = "idle"
    /\ ef = NoEF("cpu")
    /\ pc = [t \in Tasks |-> "idle"]
    /\ trail = [t \in Tasks |-> <<>>]
    /\ got = [t \in Tasks |-> 0]
    /\ tally = [calls |-> 0, built |-> 0, ok |-> 0]
    /\ docs = NoDocs
    /\ ret = NoRet
    /\ batch = NoBatch
    /\ processing_tasks = [d \in Dirs |-> "absent"]
    /\ jobs = <<>>

\* ------------------------------------------------------------- actions
\* The process is restarted with another embedding model configured.
Configure(m) ==
    /\ m # cfg
    /\ cfg' = m
    /\ db' = NoDb
    /\ chkLoaded' = FALSE
    /\ call' = NoCall
    /\ lastOp' = "configure"
    /\ UNCHANGED <<exists, meta, records, verdict, initOK>>

\* Variant of the check that opens the collection with get_or_create and
\* records the candidate identity while checking.
CheckCompatibility_writes(hasEF, fresh, io) ==
    LET loaded == IF fresh THEN FALSE ELSE chkLoaded IN
    /\ verdict' = check_compatibility(exists, meta, hasEF, cfg, loaded, io)
    /\ chkLoaded' = LoadedAfterCheck(exists, hasEF, cfg, loaded, io)
    /\ call' = [hasEF |-> hasEF, io |-> io, skip |-> FALSE]
    /\ lastOp' = "check"
    /\ exists' = TRUE
    /\ meta' = IF cfg \in Loadable THEN Model(cfg, Dim[cfg]) ELSE meta
    /\ UNCHANGED <<records, cfg, db, initOK>>

\* DatabaseCompatibilityChecker(db_config, model_config).check_compatibility()
\* on a new checker (fresh) or on the retained one.
CheckCompatibility(hasEF, fresh, io) ==
    LET loaded == IF fresh THEN FALSE ELSE chkLoaded IN
    /\ verdict' = check_compatibility(exists, meta, hasEF, cfg, loaded, io)
    /\ chkLoaded' = LoadedAfterCheck(exists, hasEF, cfg, loaded, io)
    /\ call' = [hasEF |-> hasEF, io |-> io, skip |-> FALSE]
    /\ lastOp' = "check"
    /\ UNCHANGED <<exists, meta, records, cfg, db, initOK>>

\* ---------------------------------------------------------- VectorDatabase
\* _store_model_metadata(): writes the identity of the embedding function
\* into the collection metadata; a failure to obtain the dimension is logged
\* as a warning and the metadata is left as it was.
store_model_metadata(md, model, loaded) ==
    IF CanEncode(model, loaded) THEN Model(model, get_dimension(model)) ELSE md

StoreIO == {"none", "list", "get"}

\* Variant of the constructor that opens the collection and records the
\* identity before it looks at the verdict.
Initialize_late_check(skip, io) ==
    LET v == IF skip THEN verdict
             ELSE check_compatibility(exists, meta, TRUE, cfg, FALSE, io)
        rejected == ~skip /\ ~v.compatible
    IN  /\ skip => io = "none"
        /\ verdict' = v
        /\ call' = [hasEF |-> TRUE, io |-> io, skip |-> skip]
        /\ exists' = TRUE
        /\ records' = records
        /\ meta' = store_model_metadata(meta, cfg, FALSE)
        /\ db' = IF rejected THEN NoDb
                 ELSE [open |-> TRUE, model |-> cfg, loaded |-> cfg \in Loadable]
        /\ lastOp' = IF rejected THEN "init_err" ELSE "init_ok"
        /\ initOK' = (initOK \/ ~rejected)
        /\ UNCHANGED <<cfg, chkLoaded>>

\* VectorDatabase(config.database, config.model, skip_compatibility_check=skip)
Initialize(skip, io) ==
    LET v == IF skip THEN verdict
             ELSE check_compatibility(exists, meta, TRUE, cfg, FALSE, io)
    IN  /\ skip => io = "none"
        /\ verdict' = v
        /\ call' = [hasEF |-> TRUE, io |-> io, skip |-> skip]
        /\ IF ~skip /\ ~v.compatible
           THEN \* raise Exception("Model compatibility check failed: ...")
                /\ db' = NoDb
                /\ lastOp' = "init_err"
                /\ UNCHANGED <<exists, meta, records, initOK>>
           ELSE \* get_or_create_collection, then _store_model_metadata
                /\ exists' = TRUE
                /\ records' = records
                /\ meta' = store_model_metadata(meta, cfg, FALSE)
                /\ db' = [open |-> TRUE, model |-> cfg,
                          loaded |-> cfg \in Loadable]
                /\ lastOp' = "init_ok"
                /\ initOK' = TRUE
        /\ UNCHANGED <<cfg, chkLoaded>>

\* store_image_data(features of path p): collection.add embeds the document
\* with the object's embedding function; an id already present is kept.
StoreImageData(p) ==
    /\ db.open
    /\ call' = NoCall
    /\ IF exists /\ CanEncode(db.model, db.loaded)
       THEN /\ records' = IF records[p] = NoName
                          THEN [records EXCEPT ![p] = db.model]
                          ELSE records
            /\ db' = [db EXCEPT !.loaded = TRUE]
            /\ lastOp' = "store_ok"
       ELSE /\ lastOp' = "store_err"
            /\ UNCHANGED <<records, db>>
    /\ UNCHANGED <<exists, meta, cfg, chkLoaded, verdict, initOK>>

\* clear_all_images(): deletes every record, keeps collection and metadata.
ClearAllImages ==
    /\ db.open
    /\ call' = NoCall
    /\ IF exists
       THEN /\ records' = NoRecords
            /\ lastOp' = "clear_all_ok"
       ELSE /\ lastOp' = "clear_all_fail"
            /\ UNCHANGED records
    /\ UNCHANGED <<exists, meta, cfg, db, chkLoaded, verdict, initOK>>

\* clear_database_and_reset(): delete_collection through a checker, then
\* get_or_create_collection and _store_model_metadata with the object's own
\* embedding function.
ClearDatabaseAndReset ==
    /\ db.open
    /\ call' = NoCall
    /\ IF exists
       THEN /\ exists' = TRUE
            /\ records' = NoRecords
            /\ meta' = store_model_metadata(NoMeta, db.model, db.loaded)
            /\ db' = [db EXCEPT !.loaded = CanEncode(db.model, db.loaded)]
            /\ lastOp' = "reset_ok"
            /\ initOK' = FALSE
       ELSE \* delete_collection raises, clear_collection returns False
            /\ lastOp' = "reset_fail"
            /\ UNCHANGED <<exists, records, meta, db, initOK>>
    /\ UNCHANGED <<cfg, chkLoaded, verdict>>

\* `stored_dimension and current_dimension and stored != current`
DimensionDiffers(stored_dimension, current_dimension) ==
    stored_dimension # NoDim /\ current_dimension # NoDim
        /\ stored_dimension # current_dimension

\* VectorDatabase.check_model_compatibility(): the object's own test, with
\* get_model_info() of its embedding function (no dimension unless the
\* model is loaded) and no 'reason' key in the result.
check_model_compatibility(ex, md, model, loaded, io) ==
    IF io = "list" THEN Verdict(FALSE, "none", NoModel, NoModel)
    ELSE IF ~ex THEN Verdict(TRUE, "none", NoModel, NoModel)
    ELSE IF io = "get"
        THEN Verdict(FALSE, "none", NoModel,
                     Model(model, info_dimension(model, loaded)))
    ELSE LET current_dimension == info_dimension(model, loaded)
             stored == Model(md.name, md.dim)
             new    == Model(model, current_dimension)
         IN  IF NameChanged(md.name, model)
                 THEN Verdict(FALSE, "none", stored, new)
             ELSE IF DimensionDiffers(md.dim, current_dimension)
                 THEN Verdict(FALSE, "none", stored, new)
             ELSE Verdict(TRUE, "none", stored, new)

CheckModelCompatibility(io) ==
    /\ db.open
    /\ verdict' = check_model_compatibility(exists, meta, db.model, db.loaded, io)
    /\ call' = [hasEF |-> TRUE, io |-> io, skip |-> FALSE]
    /\ lastOp' = "db_check"
    /\ UNCHANGED <<exists, meta, records, cfg, db, chkLoaded, initOK>>

\* POST /clear-database (clear_database_and_restart): a new checker deletes
\* the collection with clear_collection(); nothing recreates it, and the
\* reported new_model comes from get_model_info() of an unloaded provider.
ClearDatabaseRoute ==
    /\ call' = NoCall
    /\ IF exists
       THEN /\ exists' = FALSE
            /\ records' = NoRecords
            /\ meta' = NoMeta
            /\ lastOp' = "route_clear_ok"
            /\ initOK' = FALSE
       ELSE \* delete_collection raises, clear_collection returns False: 500
            /\ lastOp' = "route_clear_fail"
            /\ UNCHANGED <<exists, records, meta, initOK>>
    /\ UNCHANGED <<cfg, db, chkLoaded, verdict>>

MainNext ==
    \/ \E m \in ModelNames : Configure(m)
    \/ \E hasEF \in BOOLEAN, fresh \in BOOLEAN, io \in StoreIO :
          CheckCompatibility(hasEF, fresh, io)
    \/ \E skip \in BOOLEAN, io \in StoreIO : Initialize(skip, io)
    \/ \E p \in Paths : StoreImageData(p)
    \/ ClearAllImages
    \/ ClearDatabaseAndReset
    \/ ClearDatabaseRoute
    \/ \E io \in StoreIO : CheckModelCompatibility(io)

\* A step of the compatibility lifecycle leaves the rest of the process alone.
Idle == UNCHANGED <<resetPc, loadVars, procVars, taskVars>>

\* MainNext /\ Idle, one disjunct per operation.
Next ==
    \/ Idle /\ \E m \in ModelNames : Configure(m)
    \/ Idle /\ \E hasEF \in BOOLEAN, fresh \in BOOLEAN, io \in StoreIO :
                  CheckCompatibility(hasEF, fresh, io)
    \/ Idle /\ \E skip \in BOOLEAN, io \in StoreIO : Initialize(skip, io)
    \/ Idle /\ \E p \in Paths : StoreImageData(p)
    \/ Idle /\ ClearAllImages
    \/ Idle /\ ClearDatabaseAndReset
    \/ Idle /\ ClearDatabaseRoute
    \/ Idle /\ \E io \in StoreIO : CheckModelCompatibility(io)

Spec == Init /\ [][Next]_vars

\* The same program started on a store directory without the collection.
InitFresh == Init /\ ~exists

SpecFresh == InitFresh /\ [][Next]_vars

TypeOK ==
    /\ exists \in BOOLEAN
    /\ meta \in [name : StoredNames \cup ModelNames, dim : StoredDims]
    /\ records \in [Paths -> Loadable \cup {NoName}]
    /\ cfg \in ModelNames
    /\ db \in [open : BOOLEAN, model : ModelNames \cup {NoName}, loaded : BOOLEAN]
    /\ chkLoaded \in BOOLEAN
    /\ verdict.reason \in Reasons
    /\ initOK \in BOOLEAN
    /\ ~exists => (meta = NoMeta /\ records = NoRecords)

\* ------------------------------------------------------------ properties
\* The state right after a check_compatibility() call with a configured
\* provider in which no store call raised.
AfterCheck == lastOp = "check" /\ call.hasEF /\ call.io = "none"

\* C1: once an initialize has returned and no clear-and-reset has run since,
\* every vector in the collection was produced by the (model_name, dimension)
\* pair recorded as the collection identity.
C1_NoMix ==
    initOK =>
        \A p \in Paths : records[p] # NoName =>
            (meta.name = records[p] /\ meta.dim = Dim[records[p]])

\* C2: a check of an existing collection that holds records but carries no
\* identity metadata never returns compatible=true for a configured provider.
C2_FailClosedOnUnknownMetadata ==
    (lastOp = "check" /\ call.hasEF /\ exists /\ meta = NoMeta
        /\ records # NoRecords)
    => ~verdict.compatible

C2_Witness ==
    /\ lastOp = "check" /\ call.hasEF /\ exists /\ meta = NoMeta
    /\ records # NoRecords
    /\ ~verdict.compatible /\ verdict.reason = "dimension_mismatch"

\* C3: a check while the collection does not exist returns compatible=true
\* with reason no_existing_collection, whatever the provider's state.
C3_NewCollectionAlwaysCompatible ==
    (lastOp = "check" /\ call.io = "none" /\ ~exists)
    => (verdict.compatible /\ verdict.reason = "no_existing_collection")

\* C4: when the stored identity has a name and a dimension and both differ
\* from the candidate's, the verdict is incompatible with reason
\* model_name_mismatch, not dimension_mismatch.
C4_NameBeforeDimension ==
    (AfterCheck /\ exists /\ cfg \in Loadable
        /\ meta.name # NoName /\ meta.dim # NoDim
        /\ meta.name # cfg /\ meta.dim # Dim[cfg])
    => (~verdict.compatible /\ verdict.reason = "model_name_mismatch")

C4_Witness ==
    /\ AfterCheck /\ exists /\ cfg \in Loadable
    /\ meta.name # NoName /\ meta.dim # NoDim
    /\ meta.name # cfg /\ meta.dim # Dim[cfg]
    /\ verdict.reason = "model_name_mismatch"
    /\ verdict.current_model = meta
    /\ verdict.new_model = Model(cfg, Dim[cfg])

\* C5: an initialize with skip_check=false whose verdict is incompatible
\* fails, yields no database object, and leaves the collection set, the
\* records and the identity metadata as they were.
C5_IncompatibleInitializeFails ==
    [][ (lastOp' \in {"init_ok", "init_err"} /\ ~call'.skip
            /\ ~verdict'.compatible)
        => (lastOp' = "init_err" /\ ~db'.open /\ store' = store) ]_vars

C5_Witness ==
    /\ lastOp = "init_err" /\ ~call.skip /\ ~db.open
    /\ verdict.reason = "model_name_mismatch"
    /\ exists /\ records # NoRecords /\ meta.name # cfg

\* C6: after clear_database_and_reset has returned True, the collection has
\* no record and a check with the same provider returns compatible=true.
C6_RebuildClearsEverything ==
    lastOp = "reset_ok" =>
        /\ records = NoRecords
        /\ check_compatibility(exists, meta, TRUE, db.model, FALSE, "none").compatible

\* C7: check_compatibility leaves the set of collections, the records and
\* the collection metadata as they were, in every branch.
C7_CheckHasNoSideEffect ==
    [][ lastOp' = "check" => store' = store ]_vars

C7_Witness ==
    /\ lastOp = "check" /\ call.hasEF /\ ~exists
    /\ verdict.reason = "no_existing_collection"

\* C8: a check of an existing collection without identity metadata gives
\* reason unreadable_metadata.
C8_NoMetadataIsUnreadable ==
    (AfterCheck /\ exists /\ meta = NoMeta /\ cfg \in Loadable)
    => verdict.reason = "unreadable_metadata"

\* C9: with metadata present, a stored model_name different from the
\* candidate's gives incompatible with reason model_name_mismatch, for every
\* stored name and every pair of dimensions.
C9_NameMismatch ==
    (AfterCheck /\ exists /\ meta # NoMeta /\ cfg \in Loadable
        /\ meta.name # cfg)
    => (~verdict.compatible /\ verdict.reason = "model_name_mismatch")

\* C10: with equal names, a missing or different dimension gives incompatible
\* with reason dimension_mismatch, and present equal dimensions give
\* compatible with reason compatible.
C10_DimensionVerdict ==
    (AfterCheck /\ exists /\ cfg \in Loadable /\ meta.name = cfg)
    => IF meta.dim = NoDim \/ Dim[cfg] = NoDim \/ meta.dim # Dim[cfg]
       THEN ~verdict.compatible /\ verdict.reason = "dimension_mismatch"
       ELSE verdict.compatible /\ verdict.reason = "compatible"

C10_Witness ==
    /\ AfterCheck /\ exists /\ cfg \in Loadable /\ meta.name = cfg
    /\ meta.dim # NoDim /\ meta.dim # Dim[cfg]
    /\ verdict.reason = "dimension_mismatch"

\* C11 (as stated): every error raised while the checker reads the store
\* (listing collections, fetching the collection, reading its metadata) gives
\* compatible=false with reason check_error.
C11_StoreErrorIsCheckError ==
    (lastOp = "check"
        /\ (call.io = "list" \/ (call.io = "get" /\ call.hasEF /\ exists)))
    => (~verdict.compatible /\ verdict.reason = "check_error")

\* C11 (amended): an error of list_collections gives compatible=false with
\* reason check_error; an error of get_collection or of reading its metadata
\* gives compatible=false with reason unreadable_metadata; neither gives
\* compatible=true.
C11_StoreErrorsFailClosed ==
    /\ (lastOp = "check" /\ call.io = "list")
         => (~verdict.compatible /\ verdict.reason = "check_error")
    /\ (lastOp = "check" /\ call.io = "get" /\ call.hasEF /\ exists)
         => (~verdict.compatible /\ verdict.reason = "unreadable_metadata")

C11_Witness ==
    /\ lastOp = "check" /\ call.io = "get" /\ call.hasEF /\ exists
    /\ meta.name = cfg /\ meta.dim = Dim[cfg] /\ cfg \in Loadable
    /\ ~verdict.compatible /\ verdict.reason = "unreadable_metadata"

\* C12: the identity metadata changes only in an initialize that created the
\* collection or passed the compatibility check, or in a clear-and-rebuild;
\* an initialize with skip_check=true on an existing collection leaves the
\* recorded model_name and model_dimension as they were.
C12_IdentityWrittenOnlyAfterCheck ==
    [][ (meta' # meta)
        => \/ lastOp' \in {"reset_ok", "route_clear_ok"}
           \/ lastOp' = "init_ok" /\ (~exists \/ ~call'.skip) ]_vars

\* The configured provider is blocked: the collection exists and a check
\* without store errors reports incompatible.
Blocked(ex, md, model) ==
    ex /\ ~check_compatibility(ex, md, TRUE, model, FALSE, "none").compatible

\* C13: once the configured provider is blocked on an existing collection,
\* every operation other than a clear-and-rebuild leaves it blocked, and no
\* initialize with skip_check=false succeeds for it.
C13_BlockedUntilRebuild ==
    [][ (Blocked(exists, meta, cfg) /\ cfg' = cfg
            /\ lastOp' \notin {"reset_ok", "route_clear_ok"})
        => /\ Blocked(exists', meta', cfg')
           /\ ~(lastOp' = "init_ok" /\ ~call'.skip) ]_vars

\* C14: after a clear-and-rebuild that reported success the collection
\* exists, is empty, and its recorded identity is the configured provider's
\* name and vector dimension.
C14_RebuildRecordsIdentity ==
    lastOp \in {"reset_ok", "route_clear_ok"} =>
        /\ exists
        /\ records = NoRecords
        /\ meta = Model(cfg, Dim[cfg])

\* C15: a clear-and-rebuild run directly after a successful one also reports
\* success and leaves the store as the first one left it.
C15_RebuildIdempotent ==
    [][ (\/ lastOp = "reset_ok" /\ lastOp' \in {"reset_ok", "reset_fail"}
         \/ lastOp = "route_clear_ok"
              /\ lastOp' \in {"route_clear_ok", "route_clear_fail"})
        => (lastOp' = lastOp /\ store' = store) ]_vars

\* C18: the embedding model is loaded only by an encode (store_image_data),
\* by record_identity (initialize, clear-and-reset) or by a check of a
\* collection whose identity metadata exists; a check of a non-existent
\* collection loads nothing.
C18_LoadOnlyWhereAllowed ==
    [][ ((~chkLoaded /\ chkLoaded') \/ (~db.loaded /\ db'.loaded))
        => \/ lastOp' \in {"store_ok", "init_ok", "reset_ok"}
           \/ lastOp' = "check" /\ exists /\ meta # NoMeta ]_vars

\* ------------------------------ CustomSentenceTransformerEmbeddingFunction
\* The `model` property, one step per SentenceTransformer(...) attempt.  The
\* outcome of every attempt (it returns or raises) is an input.
Devices == {"cpu", "cuda"}

Loading == {"s1", "s2", "s3", "s4"}

InitLoad ==
    /\ exists = FALSE
    /\ meta = NoMeta
    /\ records = NoRecords
    /\ cfg = "A"
    /\ db = NoDb
    /\ chkLoaded = FALSE
    /\ verdict = NoVerdict
    /\ call = NoCall
    /\ lastOp = "start"
    /\ initOK = FALSE
    /\ resetPc = "idle"
    /\ \E d \in Devices : ef = NoEF(d)
    /\ pc = [t \in Tasks |-> "idle"]
    /\ trail = [t \in Tasks |-> <<>>]
    /\ got = [t \in Tasks |-> 0]
    /\ tally = [calls |-> 0, built |-> 0, ok |-> 0]
    /\ docs = NoDocs
    /\ ret = NoRet
    /\ batch = NoBatch
    /\ processing_tasks = [d \in Dirs |-> "absent"]
    /\ jobs = <<>>

\* A task reads `self.model`: `if self._model is None` decides whether it
\* runs the loading code.
Call(t) ==
    /\ pc[t] \in {"idle", "done", "raised"}
    /\ tally.calls < MaxCalls
    /\ tally' = [tally EXCEPT !.calls = @ + 1]
    /\ trail' = [trail EXCEPT ![t] = <<>>]
    /\ got' = [got EXCEPT ![t] = 0]
    /\ pc' = [pc EXCEPT ![t] = IF ef.model = 0 THEN "s1" ELSE "ret"]
    /\ UNCHANGED <<ef, mainVars, resetPc, procVars, taskVars>>

\* Strategy 1: SentenceTransformer(name, **kwargs) assigned to _model, then
\* moved to the device when the device is not "cpu".
S1(t, built, moved) ==
    /\ pc[t] = "s1"
    /\ (~built \/ ef.device = "cpu") => moved
    /\ trail' = [trail EXCEPT ![t] = Append(@, 1)]
    /\ IF ~built
       THEN /\ pc' = [pc EXCEPT ![t] = IF ef.device # "cpu" THEN "s2" ELSE "s4"]
            /\ UNCHANGED <<ef, tally>>
       ELSE /\ ef' = [ef EXCEPT !.model = tally.built + 1]
            /\ IF moved
               THEN /\ pc' = [pc EXCEPT ![t] = "ret"]
                    /\ tally' = [tally EXCEPT !.built = @ + 1, !.ok = @ + 1]
               ELSE /\ pc' = [pc EXCEPT ![t] = "s2"]
                    /\ tally' = [tally EXCEPT !.built = @ + 1]
    /\ UNCHANGED <<got, mainVars, resetPc, procVars, taskVars>>

\* Fallback strategy 2: SentenceTransformer(name, device=self.device, ...).
S2(t, ok) ==
    /\ pc[t] = "s2"
    /\ trail' = [trail EXCEPT ![t] = Append(@, 2)]
    /\ IF ok
       THEN /\ ef' = [ef EXCEPT !.model = tally.built + 1]
            /\ tally' = [tally EXCEPT !.built = @ + 1, !.ok = @ + 1]
            /\ pc' = [pc EXCEPT ![t] = "ret"]
       ELSE /\ pc' = [pc EXCEPT ![t] = "s3"]
            /\ UNCHANGED <<ef, tally>>
    /\ UNCHANGED <<got, mainVars, resetPc, procVars, taskVars>>

\* Variant of the CPU fallback that does not update self.device.
S3_keeps_device(t, ok) ==
    /\ pc[t] = "s3"
    /\ trail' = [trail EXCEPT ![t] = Append(@, 3)]
    /\ IF ok
       THEN /\ ef' = [ef EXCEPT !.model = tally.built + 1]
            /\ tally' = [tally EXCEPT !.built = @ + 1, !.ok = @ + 1]
            /\ pc' = [pc EXCEPT ![t] = "ret"]
       ELSE /\ pc' = [pc EXCEPT ![t] = "raised"]
            /\ UNCHANGED <<ef, tally>>
    /\ UNCHANGED <<got, mainVars, resetPc, procVars, taskVars>>

\* Fallback strategy 3: SentenceTransformer(name, device="cpu", ...) and
\* self.device = "cpu"; its failure is raised to the caller.
S3(t, ok) ==
    /\ pc[t] = "s3"
    /\ trail' = [trail EXCEPT ![t] = Append(@, 3)]
    /\ IF ok
       THEN /\ ef' = [ef EXCEPT !.model = tally.built + 1, !.device = "cpu"]
            /\ tally' = [tally EXCEPT !.built = @ + 1, !.ok = @ + 1]
            /\ pc' = [pc EXCEPT ![t] = "ret"]
       ELSE /\ pc' = [pc EXCEPT ![t] = "raised"]
            /\ UNCHANGED <<ef, tally>>
    /\ UNCHANGED <<got, mainVars, resetPc, procVars, taskVars>>

\* Fallback strategy 4 (device "cpu"): minimal SentenceTransformer(name).
S4(t, ok) ==
    /\ pc[t] = "s4"
    /\ trail' = [trail EXCEPT ![t] = Append(@, 4)]
    /\ IF ok
       THEN /\ ef' = [ef EXCEPT !.model = tally.built + 1]
            /\ tally' = [tally EXCEPT !.built = @ + 1, !.ok = @ + 1]
            /\ pc' = [pc EXCEPT ![t] = "ret"]
       ELSE /\ pc' = [pc EXCEPT ![t] = "raised"]
            /\ UNCHANGED <<ef, tally>>
    /\ UNCHANGED <<got, mainVars, resetPc, procVars, taskVars>>

\* `return self._model`: the caller encodes with the handle it is given.
Return(t) ==
    /\ pc[t] = "ret"
    /\ got' = [got EXCEPT ![t] = ef.model]
    /\ pc' = [pc EXCEPT ![t] = "done"]
    /\ UNCHANGED <<ef, trail, tally, mainVars, resetPc, procVars, taskVars>>

LoadSteps ==
    \/ \E t \in Tasks, built \in BOOLEAN, moved \in BOOLEAN : S1(t, built, moved)
    \/ \E t \in Tasks, ok \in BOOLEAN : S2(t, ok)
    \/ \E t \in Tasks, ok \in BOOLEAN : S3(t, ok)
    \/ \E t \in Tasks, ok \in BOOLEAN : S4(t, ok)
    \/ \E t \in Tasks : Return(t)

\* Tasks use the property concurrently (nothing in the code serialises them).
NextLoad ==
    \/ \E t \in Tasks : Call(t)
    \/ LoadSteps

SpecLoad == InitLoad /\ [][NextLoad]_vars

\* One use of the property at a time.
CallAlone(t) ==
    /\ \A u \in Tasks : pc[u] \in {"idle", "done", "raised"}
    /\ Call(t)

NextLoadSeq ==
    \/ \E t \in Tasks : CallAlone(t)
    \/ LoadSteps

SpecLoadSeq == InitLoad /\ [][NextLoadSeq]_vars

\* C16: on concurrent first use at most one task runs the loading code, at
\* most one load completes, and all tasks are given the same handle.
C16_LoadMutuallyExclusive ==
    /\ Cardinality({t \in Tasks : pc[t] \in Loading}) <= 1
    /\ tally.ok <= 1
    /\ \A t, u \in Tasks :
         (pc[t] = "done" /\ pc[u] = "done") => got[t] = got[u]

C20_FailedLoadLeavesNoModel ==
    (tally.ok = 0 /\ \A t \in Tasks : pc[t] \notin Loading)
    => (ef.model = 0 /\ \A t \in Tasks : got[t] = 0)

\* ------------------------------------- clear_database_and_reset, by steps
\* First half of clear_database_and_reset(): clear_collection() deletes the
\* collection.
ResetDelete ==
    /\ db.open
    /\ resetPc = "idle"
    /\ call' = NoCall
    /\ IF exists
       THEN /\ exists' = FALSE
            /\ records' = NoRecords
            /\ meta' = NoMeta
            /\ resetPc' = "deleted"
            /\ lastOp' = "reset_deleted"
            /\ initOK' = FALSE
       ELSE /\ lastOp' = "reset_fail"
            /\ UNCHANGED <<exists, records, meta, resetPc, initOK>>
    /\ UNCHANGED <<cfg, db, chkLoaded, verdict, loadVars, procVars, taskVars>>

\* Second half: get_or_create_collection and _store_model_metadata.
ResetRecreate ==
    /\ db.open
    /\ resetPc = "deleted"
    /\ call' = NoCall
    /\ exists' = TRUE
    /\ meta' = store_model_metadata(meta, db.model, db.loaded)
    /\ db' = [db EXCEPT !.loaded = CanEncode(db.model, db.loaded)]
    /\ resetPc' = "idle"
    /\ lastOp' = "reset_ok"
    /\ UNCHANGED <<records, cfg, chkLoaded, verdict, initOK, loadVars, procVars, taskVars>>

\* Operations of the other request-handling tasks of the same process; the
\* code takes no lock, so they run at any point of a clear-and-reset.
NextConc ==
    \/ ResetDelete
    \/ ResetRecreate
    \/ /\ MainNext
       /\ UNCHANGED <<resetPc, loadVars, procVars, taskVars>>
       /\ resetPc = "deleted" => (db'.open /\ cfg' = cfg)

SpecConc == Init /\ [][NextConc]_vars

\* C17: no store_image_data step runs between the collection delete and the
\* completion of the recreate of a clear-and-reset, so no write is lost or
\* applied to a deleted collection.
C17_RebuildExclusive ==
    [][ resetPc = "deleted" => lastOp' \notin {"store_ok", "store_err"} ]_vars

\* --------------------------------------------- ImageContextExtractor
\* Outcome of the collection.get inside a lookup: it returns, or raises.
LookupIO == {"none", "get"}

\* image_exists(path): id-membership; an exception of the store is logged
\* and answered False.
image_exists(p, io) ==
    IF io = "get" THEN FALSE ELSE docs[image_id(p)] # NoDoc

\* process_image(path, force): "skipped" when the record is found and force
\* is off; otherwise features are extracted (load_image may raise) and
\* store_image_data is called.
ProcessOutcome(p, force, io, extractOK) ==
    IF ~force /\ image_exists(p, io) THEN "skipped"
    ELSE IF ~extractOK THEN "raised"
    ELSE IF exists /\ CanEncode(db.model, db.loaded) THEN "stored"
    ELSE "raised"

\* State change of process_image: collection.add with the id of the path,
\* the combined_text as document and the path in the metadata; an id that is
\* already in the collection keeps its stored record.
ProcessEffect(p, text, outcome, extractOK) ==
    IF outcome = "skipped" \/ ~extractOK
    THEN UNCHANGED <<mainVars, docs>>
    ELSE /\ StoreImageData(p)
         /\ docs' = IF outcome = "stored" /\ docs[image_id(p)] = NoDoc
                    THEN [docs EXCEPT ![image_id(p)] =
                                          [path |-> p, text |-> text]]
                    ELSE docs

ProcessImage(p, force, text, io, extractOK) ==
    LET o == ProcessOutcome(p, force, io, extractOK) IN
    /\ db.open
    /\ ProcessEffect(p, text, o, extractOK)
    /\ ret' = [NoRet EXCEPT !.op = "process", !.arg = p, !.force = force,
                            !.text = text,
                            !.io = io, !.raised = (o = "raised"),
                            !.id = IF o = "raised" THEN <<>> ELSE image_id(p),
                            !.extracted = (o # "skipped"),
                            !.wrote = (o # "skipped" /\ extractOK)]
    /\ UNCHANGED <<batch, resetPc, loadVars, taskVars>>

\* database.image_exists(path)
ImageExists(p, io) ==
    /\ db.open
    /\ ret' = [NoRet EXCEPT !.op = "exists", !.arg = p, !.io = io,
                            !.found = image_exists(p, io)]
    /\ UNCHANGED <<mainVars, docs, batch, resetPc, loadVars, taskVars>>

\* get_image_data(path): the record under md5(path), None when the id is
\* not there, and None when the store raised.
GetImageData(p, io) ==
    LET d == IF io = "get" THEN NoDoc ELSE docs[image_id(p)] IN
    /\ db.open
    /\ ret' = [NoRet EXCEPT !.op = "get", !.arg = p, !.io = io,
                            !.found = (d # NoDoc), !.doc = d]
    /\ UNCHANGED <<mainVars, docs, batch, resetPc, loadVars, taskVars>>

\* get_image_data_by_id(image_id)
GetImageDataById(i, io) ==
    LET d == IF io = "get" THEN NoDoc ELSE docs[i] IN
    /\ db.open
    /\ ret' = [NoRet EXCEPT !.op = "get_by_id", !.id = i, !.io = io,
                            !.found = (d # NoDoc), !.doc = d]
    /\ UNCHANGED <<mainVars, docs, batch, resetPc, loadVars, taskVars>>

\* get_all_image_data(): every stored record, [] when the store raised.
GetAllImageData(io) ==
    /\ db.open
    /\ ret' = [NoRet EXCEPT !.op = "list", !.io = io,
                            !.ids = IF io = "get" THEN {}
                                    ELSE {i \in Ids : docs[i] # NoDoc}]
    /\ UNCHANGED <<mainVars, docs, batch, resetPc, loadVars, taskVars>>

\* clear_all_images() seen with the records' content.
ClearAllDocs ==
    /\ ClearAllImages
    /\ docs' = IF exists THEN NoDocs ELSE docs
    /\ ret' = [NoRet EXCEPT !.op = "clear_all", !.found = exists]
    /\ UNCHANGED <<batch, resetPc, loadVars, taskVars>>

\* ------------------------------------------------- directory batches
\* The three loops over a directory's image files.
BatchKinds == {"process_directory", "process_external_directory",
               "process_directory_background"}

\* Lists of image files a directory scan can return.
FileLists ==
    {f \in UNION {[1..n -> Paths] : n \in 0..MaxPaths} :
        \A a, b \in DOMAIN f : a # b => f[a] # f[b]}

\* Variant of the loop body's bookkeeping that forgets a failed image.
Counted_drops_failed(b, outcome, id) ==
    [b EXCEPT !.i = @ + 1, !.seen = Append(@, outcome),
              !.processed = IF outcome = "processed" THEN Append(@, id) ELSE @,
              !.skipped = IF outcome = "skipped" THEN @ + 1 ELSE @]

\* Bookkeeping of one pass through the loop body: processed_ids.append,
\* skipped_count += 1, or the except branch (seen keeps, per file, which of
\* the three happened).  extractor.process_directory
\* keeps no failed counter; the other two loops count in the except branch.
Counted(b, outcome, id) ==
    [b EXCEPT !.i = @ + 1, !.seen = Append(@, outcome),
              !.processed = IF outcome = "processed" THEN Append(@, id) ELSE @,
              !.skipped = IF outcome = "skipped" THEN @ + 1 ELSE @,
              !.failed = IF outcome = "failed" /\ b.kind # "process_directory"
                         THEN @ + 1 ELSE @]

BatchStart(kind, files, force) ==
    /\ db.open
    /\ batch.status # "running"
    /\ batch' = [NoBatch EXCEPT !.kind = kind, !.files = files,
                                !.force = force, !.status = "running"]
    /\ UNCHANGED <<mainVars, docs, ret, resetPc, loadVars, taskVars>>

\* One pass through the loop body for image_files[i]: the loop's own
\* image_exists test (io1), then process_image with its own test (io2).
BatchStep(text, io1, io2, extractOK) ==
    /\ batch.status = "running"
    /\ batch.i <= Len(batch.files)
    /\ LET p == batch.files[batch.i]
           o == ProcessOutcome(p, batch.force, io2, extractOK)
       IN  IF ~batch.force /\ image_exists(p, io1)
           THEN /\ batch' = Counted(batch, "skipped", image_id(p))
                /\ UNCHANGED <<mainVars, docs>>
           ELSE /\ ProcessEffect(p, text, o, extractOK)
                /\ batch' = Counted(batch,
                                    IF o = "raised" THEN "failed"
                                    ELSE "processed", image_id(p))
    /\ UNCHANGED <<ret, resetPc, loadVars, taskVars>>

\* After the loop: the result dictionary.
BatchEnd ==
    /\ batch.status = "running"
    /\ batch.i > Len(batch.files)
    /\ batch' = [batch EXCEPT
          !.status = "completed",
          !.result = [total_files |-> Len(batch.files),
                      processed |-> Len(batch.processed),
                      skipped |-> batch.skipped,
                      failed |-> IF batch.kind = "process_directory"
                                 THEN Len(batch.files) - Len(batch.processed)
                                          - batch.skipped
                                 ELSE batch.failed]]
    /\ UNCHANGED <<mainVars, docs, ret, resetPc, loadVars, taskVars>>

\* An extractor over an open, compatible collection.
InitProc ==
    /\ exists = TRUE
    /\ meta = Model("A", Dim["A"])
    /\ records = NoRecords
    /\ cfg = "A"
    /\ db = [open |-> TRUE, model |-> "A", loaded |-> TRUE]
    /\ chkLoaded = FALSE
    /\ verdict = NoVerdict
    /\ call = NoCall
    /\ lastOp = "init_ok"
    /\ initOK = TRUE
    /\ resetPc = "idle"
    /\ ef = NoEF("cpu")
    /\ pc = [t \in Tasks |-> "idle"]
    /\ trail = [t \in Tasks |-> <<>>]
    /\ got = [t \in Tasks |-> 0]
    /\ tally = [calls |-> 0, built |-> 0, ok |-> 0]
    /\ docs = NoDocs
    /\ ret = NoRet
    /\ batch = NoBatch
    /\ processing_tasks = [d \in Dirs |-> "absent"]
    /\ jobs = <<>>

NextProc ==
    \/ \E p \in Paths, force \in BOOLEAN, text \in Texts, io \in LookupIO,
          extractOK \in BOOLEAN : ProcessImage(p, force, text, io, extractOK)
    \/ \E p \in Paths, io \in LookupIO : ImageExists(p, io)
    \/ \E p \in Paths, io \in LookupIO : GetImageData(p, io)
    \/ \E i \in Ids, io \in LookupIO : GetImageDataById(i, io)
    \/ \E io \in LookupIO : GetAllImageData(io)
    \/ ClearAllDocs

SpecProc == InitProc /\ [][NextProc]_vars

\* Directory batches, one after another, over the same collection.
NextBatch ==
    \/ \E kind \in BatchKinds, files \in FileLists, force \in BOOLEAN :
          BatchStart(kind, files, force)
    \/ \E text \in Texts, io1 \in LookupIO, io2 \in LookupIO,
          extractOK \in BOOLEAN : BatchStep(text, io1, io2, extractOK)
    \/ BatchEnd

SpecBatch == InitProc /\ [][NextBatch]_vars

\* docs and records describe the same set of stored ids.
ProcTypeOK ==
    /\ \A p \in Paths : (docs[image_id(p)] # NoDoc) <=> (records[p] # NoName)
    /\ \A i \in Ids : docs[i] # NoDoc => image_id(docs[i].path) = i

\* C21: a forced re-processing of a path whose id is already stored leaves
\* exactly one record under that id, carrying the new text.
C21_UpsertOverwrites ==
    (ret.op = "process" /\ ret.force /\ ~ret.raised)
    => docs[ret.id] = [path |-> ret.arg, text |-> ret.text]

\* C22: exists(path) answers true exactly when the id of the path is stored,
\* and process(path, force=false) of a stored path extracts nothing, writes
\* nothing, leaves the collection as it was and returns the id of the path.
C22_SkipIfProcessed ==
    [][ /\ ret'.op = "exists"
           => (ret'.found <=> docs'[image_id(ret'.arg)] # NoDoc)
        /\ (ret'.op = "process" /\ ~ret'.force
               /\ docs[image_id(ret'.arg)] # NoDoc)
           => /\ ~ret'.extracted /\ ~ret'.wrote
              /\ docs' = docs /\ records' = records
              /\ ret'.id = image_id(ret'.arg) ]_vars

\* C23: different paths have different ids, every stored record sits under
\* the id of its own path whatever its text, and a lookup by path or by id
\* that the store answers returns the record stored under that id.
C23_KeyedByPath ==
    /\ \A p, q \in Paths : p # q => image_id(p) # image_id(q)
    /\ \A p \in Paths :
          docs[image_id(p)] # NoDoc => docs[image_id(p)].path = p
    /\ (ret.op = "get" /\ ret.io = "none")
          => /\ ret.doc = docs[image_id(ret.arg)]
             /\ ret.found => ret.doc.path = ret.arg
    /\ (ret.op = "get_by_id" /\ ret.io = "none") => ret.doc = docs[ret.id]

C23_Witness ==
    /\ \E p, q \in Paths :
          /\ p # q
          /\ docs[image_id(p)] # NoDoc /\ docs[image_id(q)] # NoDoc
          /\ docs[image_id(p)].text = docs[image_id(q)].text
          /\ ret.op = "get" /\ ret.arg = q /\ ret.found
          /\ ret.doc = [path |-> q, text |-> docs[image_id(p)].text]

\* C24: a completed batch has visited every file, and its reported
\* processed, skipped and failed counts are the numbers of files that were
\* processed, skipped and failed, so they add up to total_files.
Count(seq, x) == Cardinality({k \in DOMAIN seq : seq[k] = x})

C24_BatchAccounting ==
    batch.status = "completed" =>
        /\ Len(batch.seen) = Len(batch.files)
        /\ batch.result.total_files = Len(batch.files)
        /\ batch.result.processed = Count(batch.seen, "processed")
        /\ batch.result.skipped = Count(batch.seen, "skipped")
        /\ batch.result.failed = Count(batch.seen, "failed")
        /\ batch.result.processed + batch.result.skipped
              + batch.result.failed = batch.result.total_files

C24_Witness ==
    /\ batch.status = "completed"
    /\ batch.kind = "process_directory_background"
    /\ batch.seen = <<"failed", "processed">>
    /\ batch.result.failed = 1 /\ batch.result.processed = 1

\* C26: a lookup during which the store raised gives its caller an error,
\* not the answer it gives for a miss.
C26_StoreFailureIsError ==
    (ret.op \in {"exists", "get", "get_by_id", "list"} /\ ret.io = "get")
    => ret.raised

\* C25: an initialize that returned successfully met neither a
\* compatibility failure nor a failure to load the embedding model.
C25_InitErrorsPropagate ==
    lastOp = "init_ok" =>
        /\ cfg \in Loadable
        /\ ~call.skip => verdict.compatible

\* C27: the error of an initialize rejected for a name or dimension mismatch
\* spells out the stored name, the stored dimension, the candidate name and
\* the candidate dimension.
C27_ActionableError ==
    (lastOp = "init_err"
        /\ verdict.reason \in {"model_name_mismatch", "dimension_mismatch"})
    => {<<"stored_name", meta.name>>, <<"stored_dimension", meta.dim>>,
        <<"candidate_name", cfg>>, <<"candidate_dimension", Dim[cfg]>>}
           \subseteq message(verdict)

\* C28: a check of an existing collection answers compatible=true only when
\* the stored name and dimension are both present and equal to those of a
\* configured candidate provider.
C28_CheckerSound ==
    (lastOp = "check" /\ exists /\ verdict.compatible)
    => /\ call.hasEF
       /\ meta.name # NoName /\ meta.name = cfg
       /\ meta.dim # NoDim /\ meta.dim = Dim[cfg]

\* C29: VectorDatabase.check_model_compatibility answers with the same
\* value of compatible as DatabaseCompatibilityChecker.check_compatibility
\* does for the same store, provider and store-call outcome.
C29_ImplementationsAgree ==
    lastOp = "db_check" =>
        verdict.compatible =
            check_compatibility(exists, meta, TRUE, db.model, db.loaded,
                                call.io).compatible

\* ------------------------------------- external directory processing
\* POST /process-external/{directory_id}: the handler has no await, so it
\* runs as one step.  It answers 409 when processing_tasks[directory_id]
\* has status "processing", 404 when the scan finds no image file, and
\* otherwise creates the background task with asyncio.create_task and
\* answers 200; the task's body starts at a later turn of the event loop.
ProcessExternalDirectory(d, nfiles) ==
    LET code == IF processing_tasks[d] = "processing" THEN 409
                ELSE IF nfiles = 0 THEN 404
                ELSE 200
    IN  /\ code = 200 => Len(jobs) < MaxJobs
        /\ ret' = [NoRet EXCEPT !.op = "process_external", !.arg = d,
                                !.code = code]
        /\ jobs' = IF code = 200
                   THEN Append(jobs, [dir |-> d, pc |-> "scheduled",
                                      left |-> nfiles])
                   ELSE jobs
        /\ UNCHANGED <<mainVars, resetPc, loadVars, docs, batch,
                       processing_tasks>>

\* _process_directory_task up to its first await: the status entry is set
\* to "processing" and the extractor is constructed; an exception of the
\* constructor sets the entry to "error".
TaskStart(k, built) ==
    /\ k \in DOMAIN jobs
    /\ jobs[k].pc = "scheduled"
    /\ processing_tasks' =
          [processing_tasks EXCEPT ![jobs[k].dir] =
               IF built THEN "processing" ELSE "error"]
    /\ jobs' = [jobs EXCEPT ![k].pc = IF built THEN "running" ELSE "done"]
    /\ UNCHANGED <<mainVars, resetPc, loadVars, procVars>>

\* One image of the task's loop, up to the await that follows it.
TaskStep(k) ==
    /\ k \in DOMAIN jobs
    /\ jobs[k].pc = "running"
    /\ jobs[k].left > 0
    /\ jobs' = [jobs EXCEPT ![k].left = @ - 1]
    /\ UNCHANGED <<mainVars, resetPc, loadVars, procVars, processing_tasks>>

\* After the loop: the status entry becomes "completed".
TaskEnd(k) ==
    /\ k \in DOMAIN jobs
    /\ jobs[k].pc = "running"
    /\ jobs[k].left = 0
    /\ processing_tasks' =
          [processing_tasks EXCEPT ![jobs[k].dir] = "completed"]
    /\ jobs' = [jobs EXCEPT ![k].pc = "done"]
    /\ UNCHANGED <<mainVars, resetPc, loadVars, procVars>>

NextTasks ==
    \/ \E d \in Dirs, nfiles \in 0..MaxPaths : ProcessExternalDirectory(d, nfiles)
    \/ \E k \in 1..MaxJobs, built \in BOOLEAN : TaskStart(k, built)
    \/ \E k \in 1..MaxJobs : TaskStep(k)
    \/ \E k \in 1..MaxJobs : TaskEnd(k)

SpecTasks == InitProc /\ [][NextTasks]_vars

\* A created task that has not reached "completed" or "error".
Active(k) == jobs[k].pc \in {"scheduled", "running"}

\* C30: two background tasks for the same directory_id are never active at
\* once (a request arriving while one is active is answered 409 and creates
\* none).
C30_OneTaskPerDirectory ==
    \A j, k \in DOMAIN jobs :
        (j # k /\ Active(j) /\ Active(k)) => jobs[j].dir # jobs[k].dir

====
